---- MODULE Spec2Model ----
(***************************************************************************)
(* Dense index spaces, traversal orders, iteration cursors and the static  *)
(* partition of src/space.cpp, as a state machine.                         *)
(*                                                                         *)
(* The file holds two revisions.  The N-dimensional one (lines 125-374:    *)
(* impl::dense_space, iteration<DIM>, rm_next, cm_next, static_partition)  *)
(* is modelled by Spec, SpecPar and SpecPartition; the 2-dimensional one   *)
(* (lines 1-124: space2d, iteration<2>, _rm_order) by SpecLegacy.          *)
(*                                                                         *)
(* Arrays std::array<int, DIM> are functions over 0..DIM-1, as in the      *)
(* source; the tuples operator* returns are sequences.                     *)
(***************************************************************************)
EXTENDS Integers, Sequences, FiniteSets, Bags, TLC

VARIABLES
    global,       \* the dense_space the loops are written over
    split,        \* the dim argument of static_partition
    num_threads,  \* omp_get_num_threads() of the parallel region
    par_order,    \* the order wrapped around the partitioned space
    it,           \* per loop / worker: its iteration cursor (__begin)
    pc,           \* per loop / worker: "wait", "loop", "done", "failed"
    out,          \* per loop / worker: the tuples handed to the loop body
    extra         \* per loop / worker: operator++ calls made after the loop ended

vars == <<global, split, num_threads, par_order, it, pc, out, extra>>

----------------------------------------------------------------------------
(* Bounds of the model *)

\* spaces of the sequential loops have 1..MaxDim dimensions
MaxDim == 2

\* coordinates of the enumerated spaces are drawn from 0..MaxCoord
\* (and from -1..MaxCoord for the partitioned spaces)
MaxCoord == 2

\* the parallel region has 1..MaxThreads threads
MaxThreads == 3

\* operator++ calls made on a cursor after its loop has ended
MaxExtra == 1

\* the dimension count of the space main() partitions: dense_space(1, 99, 1, 99)
MainDim == 2

----------------------------------------------------------------------------
(* impl::dense_space *)

\* dense_space(i, args...): init<N> stores the arguments pairwise,
\* start[DIM - N] = _start, limit[DIM - N] = _end, for N = DIM down to 1
dense_space(args) ==
    LET DIM == Len(args) \div 2
    IN  [dim   |-> DIM,
         start |-> [d \in 0..(DIM - 1) |-> args[2 * d + 1]],
         limit |-> [d \in 0..(DIM - 1) |-> args[2 * d + 2]]]

\* dense_space::operator!=
space_neq(lhs, rhs) ==
    rhs.start # lhs.start \/ rhs.limit # lhs.limit

----------------------------------------------------------------------------
(* iteration<DIM, spaceT> *)

\* iteration(const spaceT &s) : index(s.start), _space(s); order is left empty
iteration(s) ==
    [index |-> s.start, order |-> "none", _space |-> s]

\* a plausible slip in operator!=: the bound spaces are not compared
iter_neq_index(lhs, rhs) ==
    rhs.index # lhs.index

\* iteration::operator!=
iter_neq(lhs, rhs) ==
    rhs.index # lhs.index \/ space_neq(lhs._space, rhs._space)

\* impl::array_to_tuple<N, T>::get: the last N elements of arr as a tuple
RECURSIVE array_to_tuple(_, _, _)
array_to_tuple(N, size, arr) ==
    IF N = 1
    THEN <<arr[size - 1]>>
    ELSE <<arr[size - N]>> \o array_to_tuple(N - 1, size, arr)

\* iteration::operator*
deref(itr) ==
    array_to_tuple(itr._space.dim, itr._space.dim, itr.index)

----------------------------------------------------------------------------
(* successor functions *)

\* a plausible slip in rm_next: '>' for '>=' in both comparisons
RECURSIVE rm_next_gt(_, _, _)
rm_next_gt(N, arr, space) ==
    IF N = 1
    THEN LET a1 == [arr EXCEPT ![0] = @ + 1]
         IN  IF a1[0] > space.limit[0] THEN space.limit ELSE a1
    ELSE LET index == N - 1
             a1 == [arr EXCEPT ![index] = @ + 1]
         IN  IF a1[index] > space.limit[index]
             THEN rm_next_gt(N - 1, [a1 EXCEPT ![index] = space.start[index]], space)
             ELSE a1

\* a plausible slip in rm_next: the dimension picked as in cm_next
RECURSIVE rm_next_rev(_, _, _)
rm_next_rev(N, arr, space) ==
    IF N = 1
    THEN LET index == space.dim - 1
             a1 == [arr EXCEPT ![index] = @ + 1]
         IN  IF a1[index] >= space.limit[index] THEN space.limit ELSE a1
    ELSE LET index == space.dim - N
             a1 == [arr EXCEPT ![index] = @ + 1]
         IN  IF a1[index] >= space.limit[index]
             THEN rm_next_rev(N - 1, [a1 EXCEPT ![index] = space.start[index]], space)
             ELSE a1

\* a plausible slip in rm_next<1>: '==' for '>=' in the terminal test
RECURSIVE rm_next_eq(_, _, _)
rm_next_eq(N, arr, space) ==
    IF N = 1
    THEN LET a1 == [arr EXCEPT ![0] = @ + 1]
         IN  IF a1[0] = space.limit[0] THEN space.limit ELSE a1
    ELSE LET index == N - 1
             a1 == [arr EXCEPT ![index] = @ + 1]
         IN  IF a1[index] >= space.limit[index]
             THEN rm_next_eq(N - 1, [a1 EXCEPT ![index] = space.start[index]], space)
             ELSE a1

\* impl::rm_next<N>::get and its specialisation rm_next<1>::get
RECURSIVE rm_next(_, _, _)
rm_next(N, arr, space) ==
    IF N = 1
    THEN LET a1 == [arr EXCEPT ![0] = @ + 1]
         IN  IF a1[0] >= space.limit[0] THEN space.limit ELSE a1
    ELSE LET index == N - 1
             a1 == [arr EXCEPT ![index] = @ + 1]
         IN  IF a1[index] >= space.limit[index]
             THEN rm_next(N - 1, [a1 EXCEPT ![index] = space.start[index]], space)
             ELSE a1

\* a plausible slip in cm_next: the carried dimension is not reset to start
RECURSIVE cm_next_noreset(_, _, _)
cm_next_noreset(N, arr, space) ==
    IF N = 1
    THEN LET index == space.dim - 1
             a1 == [arr EXCEPT ![index] = @ + 1]
         IN  IF a1[index] >= space.limit[index] THEN space.limit ELSE a1
    ELSE LET index == space.dim - N
             a1 == [arr EXCEPT ![index] = @ + 1]
         IN  IF a1[index] >= space.limit[index]
             THEN cm_next_noreset(N - 1, [a1 EXCEPT ![index] = space.limit[index] - 1], space)
             ELSE a1

\* impl::cm_next<N>::get and its specialisation cm_next<1>::get
RECURSIVE cm_next(_, _, _)
cm_next(N, arr, space) ==
    IF N = 1
    THEN LET index == space.dim - 1
             a1 == [arr EXCEPT ![index] = @ + 1]
         IN  IF a1[index] >= space.limit[index] THEN space.limit ELSE a1
    ELSE LET index == space.dim - N
             a1 == [arr EXCEPT ![index] = @ + 1]
         IN  IF a1[index] >= space.limit[index]
             THEN cm_next(N - 1, [a1 EXCEPT ![index] = space.start[index]], space)
             ELSE a1

\* the call order(index, _space) through the std::function bound by begin()
call_order(order, arr, space) ==
    IF order = "rm"
    THEN rm_next(space.dim, arr, space)
    ELSE cm_next(space.dim, arr, space)

\* operator++ as the specification asks for it: advancing at terminal is an error
operator_inc_checked(itr) ==
    IF itr.order = "none" \/ itr.index = itr._space.limit
    THEN [ok |-> FALSE, it |-> itr]
    ELSE [ok |-> TRUE,
          it |-> [itr EXCEPT !.index = call_order(itr.order, itr.index, itr._space)]]

\* iteration::operator++: assert(order); order(index, _space).
\* ok = FALSE is the abort of the failed assertion (with NDEBUG, of the
\* std::bad_function_call leaving a noexcept function)
operator_inc(itr) ==
    IF itr.order = "none"
    THEN [ok |-> FALSE, it |-> itr]
    ELSE [ok |-> TRUE,
          it |-> [itr EXCEPT !.index = call_order(itr.order, itr.index, itr._space)]]

----------------------------------------------------------------------------
(* traversable ranges: begin() and end() *)

\* a plausible slip in rm_order::begin: temp.order is never assigned
rm_order_begin_noorder(_space) ==
    iteration(_space)

\* impl::rm_order::begin
rm_order_begin(_space) ==
    [iteration(_space) EXCEPT !.order = "rm"]

\* impl::rm_order::end
rm_order_end(_space) ==
    [iteration(_space) EXCEPT !.index = _space.limit, !.order = "rm"]

\* impl::cm_order::begin
cm_order_begin(_space) ==
    [iteration(_space) EXCEPT !.order = "cm"]

\* impl::cm_order::end
cm_order_end(_space) ==
    [iteration(_space) EXCEPT !.index = _space.limit, !.order = "cm"]

\* impl::dense_space::begin: a cursor with no order bound
dense_space_begin(s) ==
    [iteration(s) EXCEPT !.index = s.start]

\* impl::dense_space::end
dense_space_end(s) ==
    [iteration(s) EXCEPT !.index = s.limit]

\* begin() of the range of the given kind ("rm", "cm", or "ds" for the bare space)
range_begin(kind, s) ==
    CASE kind = "rm" -> rm_order_begin(s)
      [] kind = "cm" -> cm_order_begin(s)
      [] OTHER       -> dense_space_begin(s)

\* end() of the range of the given kind
range_end(kind, s) ==
    CASE kind = "rm" -> rm_order_end(s)
      [] kind = "cm" -> cm_order_end(s)
      [] OTHER       -> dense_space_end(s)

----------------------------------------------------------------------------
(* impl::static_partition *)

\* the int division of C++: the quotient truncated toward zero (b > 0)
TruncDiv(a, b) ==
    IF a >= 0 THEN a \div b ELSE -((-a) \div b)

\* a plausible slip in partition: the last thread's limit is overwritten too
partition_all(o, dim, id, threads) ==
    LET size == o.limit[dim] - o.start[dim]
    IN  [o EXCEPT !.start[dim] = TruncDiv(size, threads) * id,
                  !.limit[dim] = TruncDiv(size, threads) * (id + 1)]

\* a plausible slip in partition: dimension 0 is split whatever dim is,
\* as the 2-dimensional revision's _static_partition does
partition_dim0(o, dim, id, threads) ==
    LET size == o.limit[0] - o.start[0]
        s1   == [o EXCEPT !.start[0] = TruncDiv(size, threads) * id]
    IN  IF id # threads - 1
        THEN [s1 EXCEPT !.limit[0] = TruncDiv(size, threads) * (id + 1)]
        ELSE s1

\* static_partition::partition(dim) on the copy o of the space, in the
\* thread with omp_get_thread_num() = id of omp_get_num_threads() = threads
partition(o, dim, id, threads) ==
    LET size == o.limit[dim] - o.start[dim]
        s1   == [o EXCEPT !.start[dim] = TruncDiv(size, threads) * id]
    IN  IF id # threads - 1
        THEN [s1 EXCEPT !.limit[dim] = TruncDiv(size, threads) * (id + 1)]
        ELSE s1

\* static_partition(dim, o) : spaceT(o) { partition(dim); }
static_partition(dim, o, id, threads) ==
    partition(o, dim, id, threads)

----------------------------------------------------------------------------
(* the inputs *)

Coords == 0..MaxCoord

\* every space of DIM dimensions with its bounds in C; start[d] <= limit[d]
\* is not validated by the constructor, so inverted ranges are included
SpacesOf(DIM, C) ==
    {dense_space(args) : args \in [1..(2 * DIM) -> C]}

\* the 3 x 3 space of the row-major example, and a 2 x 2 x 3 space
ExampleSpaces ==
    {dense_space(<<1, 4, 1, 4>>), dense_space(<<0, 2, 1, 3, 0, 3>>)}

Spaces ==
    UNION {SpacesOf(DIM, Coords) : DIM \in 1..MaxDim} \cup ExampleSpaces

\* the loops of the sequential specification, in program order:
\* over rm_order(s), over cm_order(s), and over the bare dense_space s
Loops == <<"rm", "cm", "ds">>

LoopIds == {Loops[k] : k \in DOMAIN Loops}

Pos(id) == CHOOSE k \in DOMAIN Loops : Loops[k] = id

Before(id) == {Loops[k] : k \in 1..(Pos(id) - 1)}

After(id) == {Loops[k] : k \in (Pos(id) + 1)..Len(Loops)}

----------------------------------------------------------------------------
(* the sequential specification: the driving loop over each kind of range *)

Init ==
    /\ global \in Spaces
    /\ split = 0
    /\ num_threads = 1
    /\ par_order = "cm"
    /\ it = [id \in LoopIds |-> iteration(global)]
    /\ pc = [id \in LoopIds |-> "wait"]
    /\ out = [id \in LoopIds |-> <<>>]
    /\ extra = [id \in LoopIds |-> 0]

\* auto __begin = range.begin(), once the loops before this one have ended
Begin(id) ==
    /\ pc[id] = "wait"
    /\ \A b \in Before(id) : pc[b] = "done"
    /\ it' = [it EXCEPT ![id] = range_begin(id, global)]
    /\ pc' = [pc EXCEPT ![id] = "loop"]
    /\ UNCHANGED <<global, split, num_threads, par_order, out, extra>>

\* one pass of the range-for: __begin != __end, the body gets *__begin, ++__begin
Step(id) ==
    /\ pc[id] = "loop"
    /\ iter_neq(it[id], range_end(it[id].order, it[id]._space))
    /\ LET r == operator_inc(it[id])
       IN  /\ out' = [out EXCEPT ![id] = Append(@, deref(it[id]))]
           /\ it' = [it EXCEPT ![id] = r.it]
           /\ pc' = [pc EXCEPT ![id] = IF r.ok THEN "loop" ELSE "failed"]
    /\ UNCHANGED <<global, split, num_threads, par_order, extra>>

\* the range-for ends: __begin != __end is false
Exit(id) ==
    /\ pc[id] = "loop"
    /\ ~iter_neq(it[id], range_end(it[id].order, it[id]._space))
    /\ pc' = [pc EXCEPT ![id] = "done"]
    /\ UNCHANGED <<global, split, num_threads, par_order, it, out, extra>>

\* a caller's operator++ on the cursor after its loop has ended
PastEnd(id) ==
    /\ pc[id] = "done"
    /\ extra[id] < MaxExtra
    /\ \A a \in After(id) : pc[a] = "wait"
    /\ LET r == operator_inc(it[id])
       IN  /\ it' = [it EXCEPT ![id] = r.it]
           /\ pc' = [pc EXCEPT ![id] = IF r.ok THEN "done" ELSE "failed"]
    /\ extra' = [extra EXCEPT ![id] = @ + 1]
    /\ UNCHANGED <<global, split, num_threads, par_order, out>>

Next ==
    \E id \in LoopIds :
        \/ Begin(id)
        \/ Step(id)
        \/ Exit(id)
        \/ PastEnd(id)

Spec == Init /\ [][Next]_vars

\* the whole range-for from cursor itr to cursor end, as Step and Exit run
\* it: the tuples handed to the body, appended to acc
RECURSIVE drive(_, _, _)
drive(itr, end, acc) ==
    IF iter_neq(itr, end)
    THEN LET r == operator_inc(itr)
         IN  IF r.ok
             THEN drive(r.it, end, Append(acc, deref(itr)))
             ELSE Append(acc, deref(itr))
    ELSE acc

\* the sequence the range-for over the range of the given kind over s yields
Traverse(kind, s) ==
    drive(range_begin(kind, s), range_end(kind, s), <<>>)

\* the sequential program keeps running: a loop that can take a step takes it
SpecFair == Spec /\ WF_vars(Next)

----------------------------------------------------------------------------
(* the parallel region of main(): every thread runs
     for (const auto &iteration : order(static_partition(dim, space))) body  *)

ParCoords == (0 - 1)..MaxCoord

\* partition(S, dimension=0, ...) of the example: S.start[0] = 1, S.limit[0] = 99
PartitionExample == dense_space(<<1, 99>>)

Threads == 0..(num_threads - 1)

ParInit ==
    /\ \/ /\ global \in SpacesOf(MainDim, ParCoords)
          /\ split \in 0..(MainDim - 1)
          /\ num_threads \in 1..MaxThreads
       \/ /\ global = PartitionExample
          /\ split = 0
          /\ num_threads = 2
    /\ par_order \in {"rm", "cm"}
    /\ it = [id \in Threads |-> iteration(global)]
    /\ pc = [id \in Threads |-> "wait"]
    /\ out = [id \in Threads |-> <<>>]
    /\ extra = [id \in Threads |-> 0]

\* thread id builds its range and takes begin():
\* order(static_partition(split, global)).begin()
ParBegin(id) ==
    /\ pc[id] = "wait"
    /\ it' = [it EXCEPT ![id] =
                 range_begin(par_order, static_partition(split, global, id, num_threads))]
    /\ pc' = [pc EXCEPT ![id] = "loop"]
    /\ UNCHANGED <<global, split, num_threads, par_order, out, extra>>

ParNext ==
    \E id \in Threads :
        \/ ParBegin(id)
        \/ Step(id)
        \/ Exit(id)

SpecPar == ParInit /\ [][ParNext]_vars

\* the partition alone: every thread derives its space, no loop runs
PartitionNext ==
    \E id \in Threads : ParBegin(id)

SpecPartition == ParInit /\ [][PartitionNext]_vars

----------------------------------------------------------------------------
(* the 2-dimensional revision (src/space.cpp lines 1-124): space2d,
   iteration<2, spaceT> and _rm_order, driven by the same range-for *)

\* space2d(start_i_, end_i_, start_j_, end_j_)
space2d(start_i_, end_i_, start_j_, end_j_) ==
    [start_i |-> start_i_, end_i |-> end_i_, start_j |-> start_j_, end_j |-> end_j_]

\* space2d::operator!=
space2d_neq(lhs, rhs) ==
    \/ rhs.start_i # lhs.start_i
    \/ rhs.start_j # lhs.start_j
    \/ rhs.end_i # lhs.end_i
    \/ rhs.end_j # lhs.end_j

\* iteration<2, spaceT>(spaceT s) : i(s.start_i), j(s.start_j), _space(s)
iteration2(s) ==
    [i |-> s.start_i, j |-> s.start_j, _order |-> "none", _space |-> s]

\* iteration<2, spaceT>::operator!=
iteration2_neq(lhs, rhs) ==
    rhs.i # lhs.i \/ rhs.j # lhs.j \/ space2d_neq(lhs._space, rhs._space)

\* _rm_order::next(i, j, space): the new <<i, j>>
rm_order2_next(i, j, space) ==
    IF i + 1 >= space.end_i
    THEN IF j + 1 >= space.end_j
         THEN <<space.end_i, space.end_j>>
         ELSE <<space.start_i, j + 1>>
    ELSE <<i + 1, j>>

\* _rm_order::begin
rm_order2_begin(_space) ==
    [iteration2(_space) EXCEPT !._order = "next"]

\* _rm_order::end
rm_order2_end(_space) ==
    [iteration2(_space) EXCEPT !.i = _space.end_i, !.j = _space.end_j, !._order = "next"]

\* iteration<2, spaceT>::operator++ with _order bound to next
iteration2_inc(itr) ==
    LET n == rm_order2_next(itr.i, itr.j, itr._space)
    IN  [itr EXCEPT !.i = n[1], !.j = n[2]]

\* iteration<2, spaceT>::operator*
iteration2_deref(itr) == <<itr.i, itr.j>>

\* the space2d with the bounds of a 2-dimensional dense_space
AsSpace2d(s) == space2d(s.start[0], s.limit[0], s.start[1], s.limit[1])

LegacyInit ==
    /\ global \in SpacesOf(2, Coords) \cup {dense_space(<<1, 4, 1, 4>>)}
    /\ split = 0
    /\ num_threads = 1
    /\ par_order = "rm"
    /\ it = [id \in {"rm2d"} |-> rm_order2_begin(AsSpace2d(global))]
    /\ pc = [id \in {"rm2d"} |-> "loop"]
    /\ out = [id \in {"rm2d"} |-> <<>>]
    /\ extra = [id \in {"rm2d"} |-> 0]

\* one pass of the range-for over rm_order(space2d(...))
LegacyStep ==
    /\ pc["rm2d"] = "loop"
    /\ iteration2_neq(it["rm2d"], rm_order2_end(it["rm2d"]._space))
    /\ out' = [out EXCEPT !["rm2d"] = Append(@, iteration2_deref(it["rm2d"]))]
    /\ it' = [it EXCEPT !["rm2d"] = iteration2_inc(@)]
    /\ UNCHANGED <<global, split, num_threads, par_order, pc, extra>>

\* the range-for ends
LegacyExit ==
    /\ pc["rm2d"] = "loop"
    /\ ~iteration2_neq(it["rm2d"], rm_order2_end(it["rm2d"]._space))
    /\ pc' = [pc EXCEPT !["rm2d"] = "done"]
    /\ UNCHANGED <<global, split, num_threads, par_order, it, out, extra>>

LegacyNext == LegacyStep \/ LegacyExit

SpecLegacy == LegacyInit /\ [][LegacyNext]_vars

----------------------------------------------------------------------------
(* helpers of the properties *)

Dims(s) == 0..(s.dim - 1)

\* every extent limit[d] - start[d] is positive
AllPositive(s) == \A d \in Dims(s) : s.limit[d] - s.start[d] > 0

\* some dimension has start[d] = limit[d]
HasZeroExtent(s) == \E d \in Dims(s) : s.start[d] = s.limit[d]

RECURSIVE ExtentProduct(_, _)
ExtentProduct(s, n) ==
    IF n = 0 THEN 1 ELSE (s.limit[n - 1] - s.start[n - 1]) * ExtentProduct(s, n - 1)

\* the cartesian product of [start[d], limit[d]) over all d, as tuples
Points(s) ==
    LET vals == UNION {s.start[d]..s.limit[d] : d \in Dims(s)}
    IN  {t \in [1..s.dim -> vals] :
            \A d \in Dims(s) : s.start[d] <= t[d + 1] /\ t[d + 1] < s.limit[d]}

Range(q) == {q[k] : k \in DOMAIN q}

NoDuplicates(q) == \A j, k \in DOMAIN q : j # k => q[j] # q[k]

BagOf(q) == [x \in Range(q) |-> Cardinality({k \in DOMAIN q : q[k] = x})]

----------------------------------------------------------------------------
(* the properties of the sequential loops *)

\* C1: over a space with all extents > 0 the row-major driving loop yields
\* product-of-extents many multi-indices, none twice, and the set of the
\* yielded multi-indices is the cartesian product of [start[d], limit[d])
C1_RowMajorVisitsProduct ==
    AllPositive(global) =>
        /\ NoDuplicates(out["rm"])
        /\ Range(out["rm"]) \subseteq Points(global)
        /\ pc["rm"] = "done" =>
              /\ Len(out["rm"]) = ExtentProduct(global, global.dim)
              /\ Range(out["rm"]) = Points(global)

C1_Witness ==
    /\ pc["rm"] = "done"
    /\ AllPositive(global)
    /\ global.dim = 3
    /\ Len(out["rm"]) = 12

\* C5: a space with a zero-length dimension has begin() equal to end(), and
\* the driving loop over rm_order or cm_order yields nothing
C5_ZeroExtentYieldsNothing ==
    HasZeroExtent(global) =>
        \A id \in {"rm", "cm"} :
            /\ out[id] = <<>>
            /\ pc[id] # "wait" =>
                  ~iter_neq(range_begin(id, global), range_end(id, global))

\* C6: over a space with all extents > 0 the row-major and the column-major
\* driving loops yield the same multiset of multi-indices
C6_SameMultiset ==
    (AllPositive(global) /\ pc["rm"] = "done" /\ pc["cm"] = "done") =>
        BagOf(out["rm"]) = BagOf(out["cm"])

C6_Witness ==
    /\ AllPositive(global)
    /\ pc["rm"] = "done"
    /\ pc["cm"] = "done"
    /\ Len(out["cm"]) >= 4
    /\ out["rm"] # out["cm"]

\* two consecutively yielded tuples a, b of the row-major loop over s
RowMajorPair(s, a, b) ==
    LET last == s.dim
    IN  \/ /\ \A d \in 1..(last - 1) : b[d] = a[d]
           /\ b[last] = a[last] + 1
        \/ /\ b[last] = s.start[last - 1]
           /\ Cardinality({d \in 1..(last - 1) : b[d] = a[d] + 1}) = 1

\* C7: in the row-major loop over a space with all extents > 0, two
\* consecutive multi-indices either agree in all dimensions but the last,
\* which advanced, or the last dimension is reset to its start and exactly
\* one earlier dimension is incremented by 1
C7_RowMajorConsecutive ==
    AllPositive(global) =>
        \A k \in 1..(Len(out["rm"]) - 1) :
            RowMajorPair(global, out["rm"][k], out["rm"][k + 1])

\* a carry through two dimensions of a 3-dimensional space has been yielded
C7_Witness ==
    /\ AllPositive(global)
    /\ global.dim = 3
    /\ pc["rm"] = "done"
    /\ \E k \in 1..(Len(out["rm"]) - 1) :
          /\ out["rm"][k + 1][1] = out["rm"][k][1] + 1
          /\ out["rm"][k][2] > out["rm"][k + 1][2]
          /\ out["rm"][k][3] > out["rm"][k + 1][3]

RowMajorExample == dense_space(<<1, 4, 1, 4>>)

\* C8, as claimed: row-major over start=[1,1], limit=[4,4] yields
\* (1,1),(2,1),(3,1),(1,2),(2,2),(3,2),(1,3),(2,3),(3,3) as (index[0], index[1])
C8_ClaimedSequence ==
    (global = RowMajorExample /\ pc["rm"] = "done") =>
        out["rm"] = << <<1, 1>>, <<2, 1>>, <<3, 1>>, <<1, 2>>, <<2, 2>>,
                       <<3, 2>>, <<1, 3>>, <<2, 3>>, <<3, 3>> >>

\* C8, amended: row-major over start=[1,1], limit=[4,4] yields
\* (1,1),(1,2),(1,3),(2,1),(2,2),(2,3),(3,1),(3,2),(3,3) as (index[0], index[1]):
\* index[1], the last dimension, varies fastest
C8_RowMajorSequence ==
    (global = RowMajorExample /\ pc["rm"] # "wait") =>
        /\ \E n \in 0..9 :
              out["rm"] = SubSeq(<< <<1, 1>>, <<1, 2>>, <<1, 3>>, <<2, 1>>, <<2, 2>>,
                                    <<2, 3>>, <<3, 1>>, <<3, 2>>, <<3, 3>> >>, 1, n)
        /\ pc["rm"] = "done" => Len(out["rm"]) = 9

C8_Witness ==
    /\ global = RowMajorExample
    /\ pc["rm"] = "done"
    /\ Len(out["rm"]) = 9

\* the claimed sequence is the one the column-major loop yields
C8_ColumnMajorSequence ==
    (global = RowMajorExample /\ pc["cm"] = "done") =>
        out["cm"] = << <<1, 1>>, <<2, 1>>, <<3, 1>>, <<1, 2>>, <<2, 2>>,
                       <<3, 2>>, <<1, 3>>, <<2, 3>>, <<3, 3>> >>

\* the claimed sequence is also the one the 2-dimensional revision's
\* rm_order yields as (i, j), under SpecLegacy
C8_LegacySequence ==
    (global = RowMajorExample /\ pc["rm2d"] = "done") =>
        out["rm2d"] = << <<1, 1>>, <<2, 1>>, <<3, 1>>, <<1, 2>>, <<2, 2>>,
                         <<3, 2>>, <<1, 3>>, <<2, 3>>, <<3, 3>> >>

C8_LegacyWitness ==
    /\ global = RowMajorExample
    /\ pc["rm2d"] = "done"
    /\ Len(out["rm2d"]) = 9

----------------------------------------------------------------------------
(* the properties of the static partition *)

\* the indices [start[d], limit[d]) of s along dimension d
Interval(s, d) == s.start[d]..(s.limit[d] - 1)

AllPartitioned == \A id \in Threads : pc[id] # "wait"

\* C2: for a space with start[d] <= limit[d], the intervals the threads
\* 0..W-1 get along the split dimension are pairwise non-overlapping and
\* their union is exactly [S.start[d], S.limit[d])
C2_PartitionCoverage ==
    (AllPartitioned /\ \A d \in Dims(global) : global.start[d] <= global.limit[d]) =>
        /\ \A a, b \in Threads :
              a # b => Interval(it[a]._space, split) \cap Interval(it[b]._space, split) = {}
        /\ UNION {Interval(it[id]._space, split) : id \in Threads} = Interval(global, split)

\* C3: whatever the interleaving of the threads' driving loops, no
\* multi-index is yielded by two distinct threads
C3_WorkersDisjoint ==
    \A a, b \in Threads :
        a # b => Range(out[a]) \cap Range(out[b]) = {}

\* C4: thread w of W gets start'[d] = start[d] + (size / W) * w and, unless
\* it is the last, limit'[d] = start[d] + (size / W) * (w + 1); for
\* start[0] = 1, limit[0] = 99, W = 2: [1, 50) and [50, 99)
C4_PartitionFormula ==
    /\ \A id \in Threads :
          pc[id] # "wait" =>
              LET size == global.limit[split] - global.start[split]
                  q    == TruncDiv(size, num_threads)
              IN  /\ it[id]._space.start[split] = global.start[split] + q * id
                  /\ id # num_threads - 1 =>
                        it[id]._space.limit[split] = global.start[split] + q * (id + 1)
    /\ (global = PartitionExample /\ AllPartitioned) =>
          /\ it[0]._space.start[0] = 1
          /\ it[0]._space.limit[0] = 50
          /\ it[1]._space.start[0] = 50
          /\ it[1]._space.limit[0] = 99

\* C10: the space of the last thread (id = W - 1) keeps limit[d] of the input
C10_LastWorkerKeepsLimit ==
    \A id \in Threads :
        (pc[id] # "wait" /\ id = num_threads - 1) =>
            it[id]._space.limit[split] = global.limit[split]

C10_Witness ==
    /\ num_threads = 2
    /\ pc[1] # "wait"
    /\ global.start[split] = 0 - 1
    /\ global.limit[split] = 2
    /\ it[1]._space.limit[split] = 2

----------------------------------------------------------------------------
(* the properties of cursor comparison *)

\* the cursors of the threads that have built their range: each begin()
\* cursor and the end() cursor of the same range
Cursors ==
    UNION {{it[id], range_end(par_order, it[id]._space)} :
              id \in {t \in Threads : pc[t] # "wait"}}

\* index, start and limit agree in every dimension
ElementwiseEqual(a, b) ==
    \A d \in Dims(a._space) :
        /\ a.index[d] = b.index[d]
        /\ a._space.start[d] = b._space.start[d]
        /\ a._space.limit[d] = b._space.limit[d]

\* C12: two cursors compare equal (operator!= is false) exactly when their
\* indices and the start and limit of their spaces agree element-wise;
\* cursors over different spaces are unequal even where the indices coincide
C12_CursorEquality ==
    \A a, b \in Cursors :
        (~iter_neq(a, b)) <=> ElementwiseEqual(a, b)

\* threads a and b hold equal cursors; thread c holds the same index over
\* another space and compares unequal to them
C12_Witness ==
    \E a, b, c \in Threads :
        /\ a # b
        /\ pc[a] # "wait" /\ pc[b] # "wait" /\ pc[c] # "wait"
        /\ ~iter_neq(it[a], it[b])
        /\ it[c].index = it[a].index
        /\ it[c]._space # it[a]._space
        /\ iter_neq(it[a], it[c])

----------------------------------------------------------------------------
(* further properties of the static partition *)

\* the size limit[d] - start[d] of a slice along the split dimension
SliceSize(s) == s.limit[split] - s.start[split]

Abs(x) == IF x >= 0 THEN x ELSE 0 - x

\* C13: with size = limit[d] - start[d] >= 0, every non-last thread's slice
\* has size size / W, the last thread's has size size / W + size % W, and
\* the slice sizes of any two threads differ by at most size % W
C13_SliceSizes ==
    global.start[split] <= global.limit[split] =>
        LET size == SliceSize(global)
            q    == TruncDiv(size, num_threads)
            r    == size % num_threads
        IN  /\ \A id \in Threads :
                  pc[id] # "wait" =>
                      SliceSize(it[id]._space) = IF id # num_threads - 1 THEN q ELSE q + r
            /\ \A a, b \in Threads :
                  (pc[a] # "wait" /\ pc[b] # "wait") =>
                      Abs(SliceSize(it[a]._space) - SliceSize(it[b]._space)) <= r

\* C14: static_partition on dimension d leaves start[e] and limit[e] of
\* every dimension e # d as they are in the input space
C14_OtherDimensionsKept ==
    \A id \in Threads :
        pc[id] # "wait" =>
            \A e \in Dims(global) :
                e # split =>
                    /\ it[id]._space.start[e] = global.start[e]
                    /\ it[id]._space.limit[e] = global.limit[e]

\* dimension 1 has been split and changed, dimension 0 is kept
C14_Witness ==
    /\ split = 1
    /\ num_threads = 2
    /\ pc[0] # "wait"
    /\ global.start[0] # 0
    /\ global.limit[0] - global.start[0] = 3
    /\ it[0]._space.start[1] # global.start[1]
    /\ it[0]._space.limit[1] # global.limit[1]
    /\ it[0]._space.start[0] = global.start[0]
    /\ it[0]._space.limit[0] = global.limit[0]

\* C18: for an input space with start[d] <= limit[d] in every dimension,
\* negative starts included, every thread's space has start'[d] <= limit'[d]
C18_PartitionKeepsOrder ==
    (\A d \in Dims(global) : global.start[d] <= global.limit[d]) =>
        \A id \in Threads :
            pc[id] # "wait" =>
                \A d \in Dims(global) :
                    it[id]._space.start[d] <= it[id]._space.limit[d]

----------------------------------------------------------------------------
(* termination and the reachable cursor positions *)

\* C15: for every space, zero-length and inverted dimensions included, the
\* driving loop from begin() reaches a cursor equal to end() after finitely
\* many advances, under rm_order and under cm_order
C15_LoopsTerminate ==
    /\ <>(pc["rm"] = "done")
    /\ <>(pc["cm"] = "done")

\* both loops over a space with an inverted dimension have ended after yields
C15_Witness ==
    /\ \E d \in Dims(global) : global.start[d] > global.limit[d]
    /\ pc["rm"] = "done"
    /\ pc["cm"] = "done"
    /\ Len(out["rm"]) >= 2
    /\ Len(out["cm"]) >= 2

\* the index lies inside the space: start[d] <= index[d] < limit[d] for all d
InSpace(index, s) ==
    \A d \in Dims(s) : s.start[d] <= index[d] /\ index[d] < s.limit[d]

\* C16: over a space with all extents > 0, every cursor reached from begin()
\* by advancing, row-major or column-major, has an index inside the space or
\* equal to the whole tuple space.limit
C16_IndexInSpaceOrTerminal ==
    AllPositive(global) =>
        \A id \in {"rm", "cm"} :
            pc[id] # "wait" =>
                \/ InSpace(it[id].index, it[id]._space)
                \/ it[id].index = it[id]._space.limit

\* both cursors of a 3-dimensional space have carried through every dimension
C16_Witness ==
    /\ AllPositive(global)
    /\ global.dim = 3
    /\ pc["cm"] = "done"
    /\ it["rm"].index = global.limit
    /\ it["cm"].index = global.limit
    /\ \E k \in DOMAIN out["cm"] : out["cm"][k] = <<1, 2, 2>>

\* C20: operator++ on a cursor of rm_order or cm_order whose index equals
\* space.limit leaves the index equal to space.limit and the bound space
\* unchanged, so the cursor still compares equal to end()
C20_TerminalIsFixedPoint ==
    \A id \in {"rm", "cm"} :
        extra[id] > 0 =>
            /\ it[id].index = global.limit
            /\ it[id]._space = global
            /\ ~iter_neq(it[id], range_end(id, global))

\* both kinds of cursor have been advanced at terminal, over a space with
\* positive extents and over one with an inverted dimension
C20_Witness ==
    /\ extra["rm"] > 0
    /\ extra["cm"] > 0
    /\ global.dim = 2
    /\ global.start[0] < global.limit[0]
    /\ global.start[1] > global.limit[1]
    /\ it["rm"].index = global.limit
    /\ it["cm"].index = global.limit

----------------------------------------------------------------------------
(* the indices the threads of the parallel region yield *)

\* C19: every multi-index a thread's loop over its static_partition of a
\* space S with all extents > 0 yields lies inside S
C19_YieldedInsideGlobal ==
    AllPositive(global) =>
        \A id \in Threads :
            \A k \in DOMAIN out[id] :
                \A d \in Dims(global) :
                    /\ global.start[d] <= out[id][k][d + 1]
                    /\ out[id][k][d + 1] < global.limit[d]

----------------------------------------------------------------------------
(* column-major against row-major *)

\* s with its dimensions listed in reverse order
ReverseSpace(s) ==
    [dim   |-> s.dim,
     start |-> [d \in Dims(s) |-> s.start[s.dim - 1 - d]],
     limit |-> [d \in Dims(s) |-> s.limit[s.dim - 1 - d]]]

ReverseTuple(t) == [k \in 1..Len(t) |-> t[Len(t) + 1 - k]]

\* the k-th tuple of the column-major loop over s is the reversal of the
\* k-th tuple of the row-major loop over s reversed
ColumnMajorIsReversedRowMajor(s, q) ==
    LET r == Traverse("rm", ReverseSpace(s))
    IN  /\ Len(q) = Len(r)
        /\ \A k \in DOMAIN q : q[k] = ReverseTuple(r[k])

\* from tuple a to tuple b some dimension c is incremented, the dimensions
\* below c are reset to start and the dimensions above c are kept
CarriesUpward(s, a, b) ==
    \E c \in 1..s.dim :
        /\ b[c] = a[c] + 1
        /\ \A d \in 1..(c - 1) : b[d] = s.start[d - 1]
        /\ \A d \in (c + 1)..s.dim : b[d] = a[d]

\* C17, as claimed: over a space with all extents > 0 the column-major loop
\* is the row-major loop over the reversed space with every tuple reversed,
\* dimension 0 changes on every advance, and carries go toward dimension D-1
C17_ClaimedReversal ==
    (AllPositive(global) /\ pc["cm"] = "done") =>
        /\ ColumnMajorIsReversedRowMajor(global, out["cm"])
        /\ \A k \in 1..(Len(out["cm"]) - 1) :
              /\ out["cm"][k + 1][1] # out["cm"][k][1]
              /\ CarriesUpward(global, out["cm"][k], out["cm"][k + 1])

\* C17, amended: as claimed, but dimension 0 changes on every advance only
\* if its extent is at least 2; with extent 1 it is reset to the same value
C17_ReversalOfRowMajor ==
    (AllPositive(global) /\ pc["cm"] = "done") =>
        /\ ColumnMajorIsReversedRowMajor(global, out["cm"])
        /\ \A k \in 1..(Len(out["cm"]) - 1) :
              /\ global.limit[0] - global.start[0] >= 2 =>
                    out["cm"][k + 1][1] # out["cm"][k][1]
              /\ CarriesUpward(global, out["cm"][k], out["cm"][k + 1])

\* the column-major loop over the 2 x 2 x 3 space has ended, having carried
\* from dimension 0 through dimension 1 into dimension 2
C17_Witness ==
    /\ AllPositive(global)
    /\ global.dim = 3
    /\ pc["cm"] = "done"
    /\ Len(out["cm"]) = 12
    /\ \E k \in 1..(Len(out["cm"]) - 1) :
          /\ out["cm"][k + 1][3] = out["cm"][k][3] + 1
          /\ out["cm"][k + 1][1] < out["cm"][k][1]
          /\ out["cm"][k + 1][2] < out["cm"][k][2]

====
